---- MODULE Spec2Model ----
(***************************************************************************)
(* State-machine model of yellowstone-grpc-client (src/lib.rs):            *)
(* GeyserGrpcClient::connect, the x-token interceptor, the unary calls and *)
(* the bidirectional subscribe stream.                                     *)
(*                                                                         *)
(* Strings are sequences: an endpoint is a sequence of lexical tokens, a   *)
(* credential a sequence of byte codes.  The behaviour of the libraries    *)
(* the client calls (http::Uri parsing, tonic's Endpoint / Streaming,      *)
(* futures' unbounded mpsc channel) is modelled at the call sites.         *)
(***************************************************************************)
EXTENDS Integers, Sequences, FiniteSets, TLC

\* ------------------------------------------------------------------ bounds
MaxTokenLen == 2
MaxSend == 2
MaxScript == 2
MaxCalls == 3

\* ------------------------------------------------------------- helpers
None == "None"

\* Option<T>: NoneOpt, or Some(v).
NoneOpt == [some |-> FALSE, v |-> <<>>]
Some(v) == [some |-> TRUE, v |-> v]

IsPrefix(s, t) == Len(s) <= Len(t) /\ \A i \in 1..Len(s) : s[i] = t[i]

SeqsUpTo(S, n) == UNION { [1..k -> S] : k \in 0..n }

\* ------------------------------------------------------- connect inputs
\* Endpoints, as token sequences.  "sp" is a byte that may not occur in a URI,
\* "host!" a reg-name the URI grammar accepts and a TLS server name does not.
Endpoints ==
  { <<"http", "://", "host", ":port">>,          \* http://127.0.0.1:10000
    <<"https", "://", "host", ":port">>,         \* https://ams17.rpcpool.com:443
    <<"https", "://", "host!">>,
    <<"http", "://", "host", "/", "seg">>,
    <<"host", ":port">>,                         \* authority form, no scheme
    <<"/", "seg">>,                              \* origin form (absolute path)
    <<"seg", "/", "seg", "/", "seg">>,           \* sites/files/images/picture.png
    <<"https", "://">>,
    <<"http", "://", "host", "sp">>,
    <<>> }

\* Credential bytes: 'a', '1' and the control character LF.
TokenBytes == {97, 49, 10}
XTokens == {NoneOpt} \cup { Some(t) : t \in SeqsUpTo(TokenBytes, MaxTokenLen) }

\* ClientTlsConfig values: certificate material that parses or not, and an
\* optional domain_name override.
NoTls == [some |-> FALSE, material |-> None, domain |-> None]
TlsConfigs ==
  {NoTls} \cup [some : {TRUE}, material : {"valid", "malformed"}, domain : {None, "host"}]
\* ClientTlsConfig::new()
DefaultTls == [some |-> TRUE, material |-> "valid", domain |-> None]

\* ----------------------------------------------------------- URI parsing
SchemeTokens == {"http", "https"}
AuthorityTokens == {"host", "host!", ":port", "seg"}
PathTokens == {"/", "seg"}
UriTokens == SchemeTokens \cup AuthorityTokens \cup PathTokens \cup {"://"}

HasScheme(e) == Len(e) >= 2 /\ e[1] \in SchemeTokens /\ e[2] = "://"

\* Index of the first token of e at or after position from that ends the
\* authority ("/"), or Len(e)+1.
AuthorityEnd(e, from) ==
  LET stops == { i \in from..Len(e) : e[i] = "/" }
  IN  IF stops = {} THEN Len(e) + 1
      ELSE CHOOSE i \in stops : \A j \in stops : i <= j

HostOf(auth) ==
  IF auth = <<>> THEN None
  ELSE IF auth[1] \in {"host", "host!", "seg"} THEN auth[1] ELSE None

\* A plausible slip: a string without scheme is taken as a path, as a URI
\* reference would be.
from_shared_relative(e) ==
  LET bad == [ok |-> FALSE, scheme |-> None, host |-> None]
  IN
  IF e = <<>> THEN bad
  ELSE IF \E i \in 1..Len(e) : e[i] \notin UriTokens THEN bad
  ELSE IF HasScheme(e) THEN
    LET end == AuthorityEnd(e, 3)
    IN  IF end = 3 THEN bad
        ELSE [ok |-> TRUE, scheme |-> e[1], host |-> HostOf(SubSeq(e, 3, end - 1))]
  ELSE [ok |-> TRUE, scheme |-> None, host |-> None]

\* Channel::from_shared(endpoint): http::Uri::from_maybe_shared.  The result is
\* [ok |-> FALSE] (InvalidUri) or the parsed parts.
from_shared(e) ==
  LET bad == [ok |-> FALSE, scheme |-> None, host |-> None]
  IN
  IF e = <<>> THEN bad                                     \* ErrorKind::Empty
  ELSE IF \E i \in 1..Len(e) : e[i] \notin UriTokens THEN bad  \* InvalidUriChar
  ELSE IF e[1] = "/" THEN                                  \* path only
    [ok |-> TRUE, scheme |-> None, host |-> None]
  ELSE IF HasScheme(e) THEN
    LET end == AuthorityEnd(e, 3)
    IN  IF end = 3 THEN bad                 \* absolute form needs an authority
        ELSE [ok |-> TRUE, scheme |-> e[1], host |-> HostOf(SubSeq(e, 3, end - 1))]
  ELSE
    LET end == AuthorityEnd(e, 1)
    IN  IF end # Len(e) + 1 THEN bad        \* no scheme: authority must be all
        ELSE [ok |-> TRUE, scheme |-> None, host |-> HostOf(SubSeq(e, 1, end - 1))]

\* ------------------------------------------------------- TLS application
ServerNameOk(d) == d \in {"host", "seg"}

\* Endpoint::tls_config(cfg): builds the TLS connector for the URI; fails on
\* unparsable material, on a URI without host when no domain is given, and on
\* a domain that is no server name.  TRUE iff it succeeds.
tls_config(uri, cfg) ==
  LET domain == IF cfg.domain # None THEN cfg.domain ELSE uri.host
  IN  /\ cfg.material = "valid"
      /\ domain # None
      /\ ServerNameOk(domain)

\* --------------------------------------------------- credential encoding
IsVisibleAscii(b) == (b >= 32 /\ b < 127) \/ b = 9

\* x_token.try_into(): AsciiMetadataValue from a string; [ok |-> FALSE] is
\* InvalidMetadataValue.  The value keeps the bytes.
try_into(t) ==
  IF \A i \in 1..Len(t) : IsVisibleAscii(t[i])
  THEN [ok |-> TRUE, value |-> t]
  ELSE [ok |-> FALSE, value |-> <<>>]

is_empty(v) == Len(v) = 0

\* ------------------------------------------------------------------ state
VARIABLES
  pc,         \* "start" before connect, then "ready" (handle returned) or "failed"
  args,       \* the arguments connect was called with
  result,     \* what connect returned: [tag, len]
  client,     \* the GeyserGrpcClient: the two stubs' interceptors
  channel,    \* the shared lazily connecting Channel
  reachable,  \* environment: whether the endpoint accepts connections
  netIO,      \* whether any connection attempt has been made
  lastCall,   \* the last outbound call as dispatched: stub, method, metadata
  policy,     \* environment: how the server treats a subscribe stream
  subs        \* the subscriptions, by slot

vars == <<pc, args, result, client, channel, reachable, netIO, lastCall, policy, subs>>
clientVars == <<pc, args, result, client, reachable, policy>>

NoArgs == [endpoint |-> <<>>, x_token |-> NoneOpt, tls_config |-> NoTls]
NoResult == [tag |-> None, len |-> 0]
Ok == [tag |-> "Ok", len |-> 0]
Err(tag, n) == [tag |-> tag, len |-> n]
NoClient == [exists |-> FALSE,
             health |-> [x_token |-> NoneOpt], geyser |-> [x_token |-> NoneOpt]]
NoUri == [ok |-> FALSE, scheme |-> None, host |-> None]
NoChannel == [uri |-> NoUri, tls |-> NoTls, conn |-> None]
\* lastCall: the latest call through a stub.  seq counts the requests handed to
\* the channel so far, returned is what the operation gave its caller.
NoCall == [stub |-> None, method |-> None, seq |-> 0, intercepted |-> None,
           metadata |-> {}, outcome |-> None,
           returned |-> [tag |-> None, value |-> None]]

\* ---------------------------------------------------------------- connect
\* A plausible slip: the scheme is looked at before the caller's configuration.
EffectiveTls_schemeFirst(uri, cfg) ==
  IF uri.scheme = "https" THEN
    IF tls_config(uri, DefaultTls) THEN [ok |-> TRUE, tls |-> DefaultTls]
    ELSE [ok |-> FALSE, tls |-> NoTls]
  ELSE IF cfg.some THEN
    IF tls_config(uri, cfg) THEN [ok |-> TRUE, tls |-> cfg]
    ELSE [ok |-> FALSE, tls |-> NoTls]
  ELSE [ok |-> TRUE, tls |-> NoTls]

\* lib.rs 78-82: the encryption connect applies.  [ok, tls]; ok = FALSE is the
\* transport error of tls_config(..)?.
EffectiveTls(uri, cfg) ==
  IF cfg.some THEN
    IF tls_config(uri, cfg) THEN [ok |-> TRUE, tls |-> cfg]
    ELSE [ok |-> FALSE, tls |-> NoTls]
  ELSE IF uri.scheme = "https" THEN
    IF tls_config(uri, DefaultTls) THEN [ok |-> TRUE, tls |-> DefaultTls]
    ELSE [ok |-> FALSE, tls |-> NoTls]
  ELSE [ok |-> TRUE, tls |-> NoTls]

\* A plausible slip: the channel is connected eagerly, as Endpoint::connect does.
connect_eager(uri, tls) ==
  [uri |-> uri, tls |-> tls, conn |-> IF reachable THEN "ready" ELSE "failed"]

\* lib.rs 83: endpoint.connect_lazy(): a channel that has made no attempt.
connect_lazy(uri, tls) == [uri |-> uri, tls |-> tls, conn |-> "idle"]

\* lib.rs 85-88: Option<T> to Option<AsciiMetadataValue>; [ok, x_token].
ConvertToken(t) ==
  IF t.some THEN
    LET r == try_into(t.v)
    IN  IF r.ok THEN [ok |-> TRUE, x_token |-> Some(r.value)]
        ELSE [ok |-> FALSE, x_token |-> NoneOpt]
  ELSE [ok |-> TRUE, x_token |-> NoneOpt]

\* Plausible slips: the length check left out, and the length the error message
\* names ("expected 28") enforced.
TokenLengthOk_unchecked(x) == TRUE
TokenLengthOk_28(x) == ~x.some \/ Len(x.v) = 28

\* lib.rs 89-94: Some(token) if token.is_empty() is rejected.
TokenLengthOk(x) == ~(x.some /\ is_empty(x.v))

\* A plausible slip: the credential is validated first, before the endpoint
\* and the encryption settings.
connect_tokenFirst(endpoint, x_token, tls_cfg) ==
  LET uri == from_shared(endpoint)
      tok == ConvertToken(x_token)
      fail(tag, n) == [result |-> Err(tag, n), client |-> NoClient, channel |-> NoChannel]
  IN
  IF ~tok.ok THEN fail("MetadataValueError", 0)
  ELSE IF ~TokenLengthOk(tok.x_token)
  THEN fail("InvalidXTokenLength", Len(tok.x_token.v))
  ELSE IF ~uri.ok THEN fail("InvalidUri", 0)
  ELSE
    LET enc == EffectiveTls(uri, tls_cfg) IN
    IF ~enc.ok THEN fail("TonicError", 0)
    ELSE
      LET interceptor == [x_token |-> tok.x_token]
      IN  [result |-> Ok,
           client |-> [exists |-> TRUE, health |-> interceptor, geyser |-> interceptor],
           channel |-> connect_lazy(uri, enc.tls)]

\* lib.rs 67-101: GeyserGrpcClient::connect.  [result, client, channel].
connect(endpoint, x_token, tls_cfg) ==
  LET uri == from_shared(endpoint)
      fail(tag, n) == [result |-> Err(tag, n), client |-> NoClient, channel |-> NoChannel]
  IN
  IF ~uri.ok THEN fail("InvalidUri", 0)
  ELSE
    LET enc == EffectiveTls(uri, tls_cfg) IN
    IF ~enc.ok THEN fail("TonicError", 0)
    ELSE
      LET ch == connect_lazy(uri, enc.tls)
          tok == ConvertToken(x_token)
      IN
      IF ~tok.ok THEN fail("MetadataValueError", 0)
      ELSE IF ~TokenLengthOk(tok.x_token)
      THEN fail("InvalidXTokenLength", Len(tok.x_token.v))
      ELSE
        LET interceptor == [x_token |-> tok.x_token]
        IN  [result |-> Ok,
             client |-> [exists |-> TRUE, health |-> interceptor, geyser |-> interceptor],
             channel |-> ch]

Connect ==
  /\ pc = "start"
  /\ \E e \in Endpoints, t \in XTokens, c \in TlsConfigs :
       LET r == connect(e, t, c) IN
       /\ args' = [endpoint |-> e, x_token |-> t, tls_config |-> c]
       /\ result' = r.result
       /\ client' = r.client
       /\ channel' = r.channel
       /\ netIO' = (r.channel.conn \notin {None, "idle"})
       /\ pc' = IF r.result = Ok THEN "ready" ELSE "failed"
  /\ UNCHANGED <<reachable, lastCall, policy, subs>>

\* ------------------------------------------------------------ interceptor
\* MetadataMap::insert: one value per key.
MdInsert(md, k, v) == { e \in md : e[1] # k } \cup { <<k, v>> }

\* Plausible slips: another header key, and a header inserted without a credential.
InterceptorFn_call_wrongKey(self, md) ==
  [ok |-> TRUE,
   metadata |-> IF self.x_token.some THEN MdInsert(md, "token", self.x_token.v) ELSE md]
InterceptorFn_call_always(self, md) ==
  [ok |-> TRUE, metadata |-> MdInsert(md, "x-token", self.x_token.v)]

\* A plausible slip: the credential is checked at call time, and a call without
\* one is refused with a status.
InterceptorFn_call_checked(self, md) ==
  [ok |-> self.x_token.some,
   metadata |-> IF self.x_token.some THEN MdInsert(md, "x-token", self.x_token.v) ELSE md]

\* lib.rs 34-41: InterceptorFn::call, on the request's metadata: Ok(request)
\* with its metadata ([ok |-> FALSE] would be Err(status)).
InterceptorFn_call(self, md) ==
  [ok |-> TRUE,
   metadata |-> IF self.x_token.some THEN MdInsert(md, "x-token", self.x_token.v) ELSE md]

\* What a call through stub returns when the peer would answer o: a status of
\* the interceptor ends the call before anything is sent.
Intercepted(stub, o) ==
  IF InterceptorFn_call(client[stub], {}).ok THEN o ELSE "Status"

\* One remote call through stub (InterceptedService<Channel, F>): the
\* interceptor decorates the request, the lazy channel connects on first use.
\* The peer's answer to a call: Response<T>, the message with its metadata.
Response(method) == [metadata |-> "headers", message |-> method]
into_inner(response) == response.message

\* `?` and into_inner on the answer: the message, or the status as TonicStatus.
Returned(method, o) ==
  IF o = "Ok" THEN [tag |-> "Ok", value |-> into_inner(Response(method))]
  ELSE [tag |-> "TonicStatus", value |-> "Status"]

Dispatch(stub, method, outcome) ==
  LET r == InterceptorFn_call(client[stub], {}) IN
  /\ lastCall' = [stub |-> stub, method |-> method,
                  seq |-> lastCall.seq + (IF r.ok THEN 1 ELSE 0),
                  intercepted |-> IF r.ok THEN "Ok" ELSE "Status",
                  metadata |-> r.metadata,
                  outcome |-> Intercepted(stub, outcome),
                  returned |-> Returned(method, Intercepted(stub, outcome))]
  /\ netIO' = (netIO \/ r.ok)
  /\ channel' = IF r.ok
                THEN [channel EXCEPT !.conn = IF reachable THEN "ready" ELSE "idle"]
                ELSE channel

\* What the peer may answer to a call: a response or a status; only a status
\* (Unavailable) when no connection can be made.
Outcomes == IF reachable THEN {"Ok", "Status"} ELSE {"Status"}

\* ----------------------------------------------------------- subscriptions
\* Two subscriptions: enough to compare two runs and to interleave them.
Slots == {1, 2}

\* CommitmentLevel as i32 (value as i32).
CommitmentAsI32(c) ==
  CASE c = "processed" -> 0 [] c = "confirmed" -> 1 [] c = "finalized" -> 2

NoCommitment == [some |-> FALSE, v |-> -1]

\* Arguments of subscribe_once: the five filter maps (by their names) and the
\* optional commitment level.
OnceArgs ==
  { [slots |-> {"client"}, accounts |-> {}, transactions |-> {}, blocks |-> {},
     blocks_meta |-> {}, commitment |-> NoneOpt],
    [slots |-> {}, accounts |-> {"acc"}, transactions |-> {"tx"}, blocks |-> {},
     blocks_meta |-> {"meta"}, commitment |-> Some("confirmed")] }

\* What subscribe_once was given, before any call of it.
NoOnceArgs ==
  [slots |-> {}, accounts |-> {}, transactions |-> {}, blocks |-> {},
   blocks_meta |-> {}, commitment |-> NoneOpt]

\* A plausible slip: one filter group is left out of the request.
MkRequest_noBlocksMeta(a) ==
  [slots |-> a.slots, accounts |-> a.accounts, transactions |-> a.transactions,
   blocks |-> a.blocks, blocks_meta |-> {},
   commitment |-> IF a.commitment.some
                  THEN [some |-> TRUE, v |-> CommitmentAsI32(a.commitment.v)]
                  ELSE NoCommitment]

\* lib.rs 146-153: the SubscribeRequest subscribe_once builds.
MkRequest(a) ==
  [slots |-> a.slots, accounts |-> a.accounts, transactions |-> a.transactions,
   blocks |-> a.blocks, blocks_meta |-> a.blocks_meta,
   commitment |-> IF a.commitment.some
                  THEN [some |-> TRUE, v |-> CommitmentAsI32(a.commitment.v)]
                  ELSE NoCommitment]

Requests == { MkRequest(a) : a \in OnceArgs }
NoRequest == [slots |-> {}, accounts |-> {}, transactions |-> {}, blocks |-> {},
              blocks_meta |-> {}, commitment |-> NoCommitment]

\* Server behaviour on one stream: whether it answers the open, how many
\* requests it waits for before emitting, how many updates it emits, and how the
\* response ends: never, with trailers ("ok", "status"), by the transport
\* failing ("abort"), or with trailers once the client has half-closed ("onEof").
Policies ==
  [accept : BOOLEAN, need : {0, 1}, len : 0..MaxScript,
   finish : {"never", "ok", "status", "abort", "onEof"}]

Update(first, k) == [kind |-> "update", filter |-> first, seq |-> k, status |-> None]
ErrItem(how) == [kind |-> "error", filter |-> NoRequest, seq |-> 0, status |-> how]
End == [kind |-> "end", filter |-> NoRequest, seq |-> 0, status |-> None]

Unopened ==
  [via |-> None, phase |-> "unopened", given |-> NoOnceArgs, once |-> NoRequest,
   ret |-> None,
   tx |-> None, rx |-> None, sent |-> <<>>, queue |-> <<>>,
   received |-> <<>>, eof |-> FALSE,
   emitted |-> 0, srvEnd |-> None, inbound |-> <<>>,
   src |-> None, srcState |-> "reading", items |-> <<>>, lastSend |-> None,
   pulledClosed |-> FALSE]

\* &mut self is held by subscribe_once from its open to its send.
Busy == \E s \in Slots : subs[s].phase = "sending"
CanCall == pc = "ready" /\ ~Busy /\ lastCall.seq < MaxCalls

HasFree(S) == \E s \in S : subs[s].phase = "unopened"
FreeSlot(S) == CHOOSE s \in S :
                 /\ subs[s].phase = "unopened"
                 /\ \A t \in S : subs[t].phase = "unopened" => s <= t

\* How the peer answers the stream open.
OpenOutcome ==
  Intercepted("geyser", IF reachable /\ policy.accept THEN "Ok" ELSE "Status")

\* A plausible slip: the answer to the open is not looked at (no `?`), the
\* pair is returned whatever it was.
subscribe_unchecked(via, o) ==
  [Unopened EXCEPT !.via = via, !.phase = "open", !.ret = "Ok",
                   !.tx = "held", !.rx = "alive", !.src = "held"]

\* lib.rs 129-132: subscribe() on a fresh slot: the unbounded channel, the
\* call with its receiving end, and on success the pair (sink, update source).
subscribe(via, o) ==
  IF o = "Ok"
  THEN [Unopened EXCEPT !.via = via, !.phase = "open", !.ret = "Ok",
                        !.tx = "held", !.rx = "alive", !.src = "held"]
  ELSE [Unopened EXCEPT !.via = via, !.phase = "failed", !.ret = "TonicStatus",
                        !.tx = "dropped", !.rx = "dropped", !.src = "dropped"]

\* A plausible slip: a bounded channel of capacity one, whose send fails when
\* a message is still buffered.
mpsc_send_bounded(sub, req) ==
  IF sub.rx = "alive" /\ sub.queue = <<>>
  THEN [sub EXCEPT !.queue = Append(@, req), !.sent = Append(@, req), !.lastSend = "Ok"]
  ELSE [sub EXCEPT !.lastSend = "SendError"]

\* UnboundedSender::send: appends unless the receiver is gone.
mpsc_send(sub, req) ==
  IF sub.rx = "alive"
  THEN [sub EXCEPT !.queue = Append(@, req), !.sent = Append(@, req), !.lastSend = "Ok"]
  ELSE [sub EXCEPT !.lastSend = "SendError"]

\* A plausible slip: the newest message is taken first.
mpsc_next_lifo(q) == [msg |-> q[Len(q)], rest |-> SubSeq(q, 1, Len(q) - 1)]

\* UnboundedReceiver::poll_next on a non-empty buffer: the oldest message.
mpsc_next(q) == [msg |-> Head(q), rest |-> Tail(q)]

\* ------------------------------------------------------------ client calls
\* A plausible slip: a call answered with a status is issued once more.
Unary_retry(stub, method) ==
  /\ CanCall
  /\ \E o1 \in Outcomes, o2 \in Outcomes :
       LET again == o1 = "Status"
           o == IF again THEN o2 ELSE o1
       IN  /\ lastCall' = [stub |-> stub, method |-> method,
                           seq |-> lastCall.seq + (IF again THEN 2 ELSE 1),
                           intercepted |-> "Ok",
                           metadata |-> InterceptorFn_call(client[stub], {}).metadata,
                           outcome |-> o, returned |-> Returned(method, o)]
           /\ netIO' = TRUE
           /\ channel' = [channel EXCEPT !.conn = IF reachable THEN "ready" ELSE "idle"]
  /\ UNCHANGED <<clientVars, subs>>

\* lib.rs 105-111, 158-215: one request, one call on the stub, `?`, into_inner.
Unary(stub, method) ==
  /\ CanCall
  /\ \E o \in Outcomes : Dispatch(stub, method, o)
  /\ UNCHANGED <<clientVars, subs>>

health_check == Unary("health", "check")                       \* lib.rs 105-111
health_watch == Unary("health", "watch")                       \* lib.rs 113-121
ping == Unary("geyser", "ping")                                \* lib.rs 158-163
get_latest_blockhash == Unary("geyser", "get_latest_blockhash")  \* lib.rs 165-174
get_block_height == Unary("geyser", "get_block_height")        \* lib.rs 176-185
get_slot == Unary("geyser", "get_slot")                        \* lib.rs 187-196
is_blockhash_valid == Unary("geyser", "is_blockhash_valid")    \* lib.rs 198-209
get_version == Unary("geyser", "get_version")                  \* lib.rs 211-215

\* lib.rs 123-133
Subscribe(S) ==
  /\ CanCall /\ HasFree(S)
  /\ Dispatch("geyser", "subscribe", OpenOutcome)
  /\ subs' = [subs EXCEPT ![FreeSlot(S)] = subscribe("subscribe", OpenOutcome)]
  /\ UNCHANGED clientVars

\* lib.rs 144: subscribe_once up to the return of self.subscribe().await?
SubscribeOnceOpen(S) ==
  /\ CanCall /\ HasFree(S)
  /\ \E a \in OnceArgs :
       LET sub == subscribe("subscribe_once", OpenOutcome)
       IN  subs' = [subs EXCEPT ![FreeSlot(S)] =
                      [sub EXCEPT !.given = a, !.once = MkRequest(a),
                                  !.phase = IF OpenOutcome = "Ok" THEN "sending" ELSE "failed"]]
  /\ Dispatch("geyser", "subscribe", OpenOutcome)
  /\ UNCHANGED clientVars

\* A plausible slip: the commitment level is left out of the one request.
subscribe_once_send_noCommitment(sub) ==
  LET after == mpsc_send(sub, [sub.once EXCEPT !.commitment = NoCommitment])
  IN  IF after.lastSend = "Ok"
      THEN [after EXCEPT !.phase = "open", !.tx = "dropped", !.ret = "Ok"]
      ELSE [after EXCEPT !.phase = "failed", !.tx = "dropped", !.src = "dropped",
                         !.ret = "SubscribeSendError"]

\* A plausible slip: a failed send is retried on a fresh stream.
subscribe_once_send_reopen(sub) ==
  LET after == mpsc_send(sub, sub.once)
  IN  IF after.lastSend = "Ok"
      THEN [after EXCEPT !.phase = "open", !.tx = "dropped", !.ret = "Ok"]
      ELSE Unopened

\* lib.rs 145-155: the one send, then the sink is dropped and the update
\* source returned; a failed send drops both.
subscribe_once_send(sub) ==
  LET after == mpsc_send(sub, sub.once)
  IN  IF after.lastSend = "Ok"
      THEN [after EXCEPT !.phase = "open", !.tx = "dropped", !.ret = "Ok"]
      ELSE [after EXCEPT !.phase = "failed", !.tx = "dropped", !.src = "dropped",
                         !.ret = "SubscribeSendError"]

SubscribeOnceSend(s) ==
  /\ subs[s].phase = "sending"
  /\ subs' = [subs EXCEPT ![s] = subscribe_once_send(subs[s])]
  /\ UNCHANGED <<clientVars, channel, netIO, lastCall>>

\* A plausible slip: one request channel per client, made by the first
\* subscribe and shared by the later ones.
Send_shared(s) ==
  /\ subs[s].phase = "open" /\ subs[s].tx = "held"
  /\ Len(subs[s].sent) < MaxSend
  /\ LET first == CHOOSE t \in Slots :
                    /\ subs[t].phase = "open"
                    /\ \A u \in Slots : subs[u].phase = "open" => t <= u
     IN  \E req \in Requests :
           subs' = [subs EXCEPT ![first] = mpsc_send(subs[first], req)]
  /\ UNCHANGED <<clientVars, channel, netIO, lastCall>>

\* The caller sends one filter-set on the sink.
Send(s) ==
  /\ subs[s].phase = "open" /\ subs[s].tx = "held"
  /\ Len(subs[s].sent) < MaxSend
  /\ \E req \in Requests : subs' = [subs EXCEPT ![s] = mpsc_send(subs[s], req)]
  /\ UNCHANGED <<clientVars, channel, netIO, lastCall>>

\* The caller drops the sink.
DropSink(s) ==
  /\ subs[s].phase = "open" /\ subs[s].tx = "held"
  /\ subs' = [subs EXCEPT ![s].tx = "dropped"]
  /\ UNCHANGED <<clientVars, channel, netIO, lastCall>>

\* A plausible slip: the update source ends with the request side.
stream_next_sinkBound(sub) ==
  IF sub.srcState = "error" \/ sub.tx = "dropped"
  THEN [sub EXCEPT !.items = Append(@, End), !.srcState = "done"]
  ELSE IF sub.inbound # <<>>
  THEN [sub EXCEPT !.items = Append(@, Head(sub.inbound)), !.inbound = Tail(@)]
  ELSE IF sub.srvEnd = "ok"
  THEN [sub EXCEPT !.items = Append(@, End), !.srcState = "done"]
  ELSE [sub EXCEPT !.items = Append(@, ErrItem(sub.srvEnd)), !.srcState = "error"]

\* A plausible slip: a status that ends the response is swallowed, the
\* sequence just ends.
stream_next_swallow(sub) ==
  IF sub.inbound # <<>>
  THEN [sub EXCEPT !.items = Append(@, Head(sub.inbound)), !.inbound = Tail(@)]
  ELSE [sub EXCEPT !.items = Append(@, End), !.srcState = "done"]

\* Streaming::poll_next: what the update source yields next, if anything.
stream_next(sub) ==
  IF sub.srcState = "error"
  THEN [sub EXCEPT !.items = Append(@, End), !.srcState = "done"]
  ELSE IF sub.inbound # <<>>
  THEN [sub EXCEPT !.items = Append(@, Head(sub.inbound)), !.inbound = Tail(@)]
  ELSE IF sub.srvEnd = "ok"
  THEN [sub EXCEPT !.items = Append(@, End), !.srcState = "done"]
  ELSE [sub EXCEPT !.items = Append(@, ErrItem(sub.srvEnd)), !.srcState = "error"]

\* The caller pulls the next item from the update source.
NextItem(s) ==
  /\ subs[s].phase = "open" /\ subs[s].src = "held"
  /\ subs[s].srcState # "done"
  /\ subs[s].srcState = "error" \/ subs[s].inbound # <<>> \/ subs[s].srvEnd # None
  /\ subs' = [subs EXCEPT ![s] =
                [stream_next(subs[s]) EXCEPT !.pulledClosed = @ \/ subs[s].tx = "dropped"]]
  /\ UNCHANGED <<clientVars, channel, netIO, lastCall>>

\* The caller drops the update source: the call is cancelled.
DropSource(s) ==
  /\ subs[s].phase = "open" /\ subs[s].src = "held"
  /\ subs' = [subs EXCEPT ![s].src = "dropped", ![s].rx = "dropped", ![s].queue = <<>>]
  /\ UNCHANGED <<clientVars, channel, netIO, lastCall>>

\* ------------------------------------------------------- transport, server
Live(s) == subs[s].phase \in {"sending", "open"} /\ subs[s].src = "held"

\* The request body is polled from the receiving end and reaches the server.
Deliver(s) ==
  /\ Live(s) /\ subs[s].rx = "alive" /\ subs[s].queue # <<>>
  /\ LET m == mpsc_next(subs[s].queue)
     IN  subs' = [subs EXCEPT ![s].queue = m.rest,
                              ![s].received = Append(@, m.msg)]
  /\ UNCHANGED <<clientVars, channel, netIO, lastCall>>

\* All senders gone and the buffer drained: the request stream ends.
DeliverEof(s) ==
  /\ Live(s) /\ subs[s].rx = "alive" /\ subs[s].queue = <<>>
  /\ subs[s].tx = "dropped"
  /\ subs' = [subs EXCEPT ![s].rx = "dropped", ![s].eof = TRUE]
  /\ UNCHANGED <<clientVars, channel, netIO, lastCall>>

ServerReady(s) ==
  /\ Live(s) /\ subs[s].srvEnd = None
  /\ Len(subs[s].received) >= policy.need

ServerEmit(s) ==
  /\ ServerReady(s) /\ subs[s].emitted < policy.len
  /\ LET first == IF policy.need = 0 THEN NoRequest ELSE subs[s].received[1]
     IN  subs' = [subs EXCEPT ![s].emitted = @ + 1,
                              ![s].inbound = Append(@, Update(first, subs[s].emitted + 1))]
  /\ UNCHANGED <<clientVars, channel, netIO, lastCall>>

ServerFinish(s) ==
  /\ ServerReady(s) /\ subs[s].emitted = policy.len
  /\ \/ policy.finish \in {"ok", "status", "abort"}
     \/ policy.finish = "onEof" /\ subs[s].eof
  /\ subs' = [subs EXCEPT ![s].srvEnd =
                IF policy.finish = "onEof" THEN "ok" ELSE policy.finish]
  /\ UNCHANGED <<clientVars, channel, netIO, lastCall>>

\* After the response has ended the call is torn down, and with it the
\* receiving end of the request channel.
TearDown(s) ==
  /\ Live(s) /\ subs[s].srvEnd # None /\ subs[s].rx = "alive"
  /\ subs' = [subs EXCEPT ![s].rx = "dropped", ![s].queue = <<>>]
  /\ UNCHANGED <<clientVars, channel, netIO, lastCall>>

\* ------------------------------------------------------------ specifications
DefaultPolicy == [accept |-> TRUE, need |-> 1, len |-> 1, finish |-> "onEof"]

Init ==
  /\ pc = "start"
  /\ args = NoArgs
  /\ result = NoResult
  /\ client = NoClient
  /\ channel = NoChannel
  /\ reachable \in BOOLEAN
  /\ netIO = FALSE
  /\ lastCall = NoCall
  /\ policy = DefaultPolicy
  /\ subs = [s \in Slots |-> Unopened]

\* The state after connect("http://host:port", Some("a1"), None), against any
\* server behaviour.
InitStream ==
  LET e == <<"http", "://", "host", ":port">>
      r == connect(e, Some(<<97, 49>>), NoTls)
  IN
  /\ pc = "ready"
  /\ args = [endpoint |-> e, x_token |-> Some(<<97, 49>>), tls_config |-> NoTls]
  /\ result = r.result
  /\ client = r.client
  /\ channel = r.channel
  /\ reachable = TRUE
  /\ netIO = FALSE
  /\ lastCall = NoCall
  /\ policy \in Policies
  /\ subs = [s \in Slots |-> Unopened]

\* One subscription's steps while the caller keeps its update source.
RunNext(s) ==
  \/ SubscribeOnceSend(s)
  \/ Send(s)
  \/ DropSink(s)
  \/ NextItem(s)
  \/ Deliver(s)
  \/ DeliverEof(s)
  \/ ServerEmit(s)
  \/ ServerFinish(s)
  \/ TearDown(s)

StreamNext(S) ==
  \/ Subscribe(S)
  \/ SubscribeOnceOpen(S)
  \/ \E s \in S : RunNext(s) \/ DropSource(s)

CallNext ==
  \/ health_check
  \/ health_watch
  \/ ping
  \/ get_latest_blockhash
  \/ get_block_height
  \/ get_slot
  \/ is_blockhash_valid
  \/ get_version

\* Construction and call dispatch: connect with any arguments, then any
\* sequence of calls on the two stubs, stream opens included.
Next ==
  \/ Connect
  \/ CallNext
  \/ Subscribe(Slots)
  \/ SubscribeOnceOpen(Slots)
  \/ \E s \in Slots : SubscribeOnceSend(s)

Spec == Init /\ [][Next]_vars

\* One subscription on a constructed client, with the transport and the server.
NextStream == StreamNext({1})

SpecStream == InitStream /\ [][NextStream]_vars

\* Two runs against the same server: one opened by subscribe, on which the
\* caller sends at most one filter-set, and one opened by subscribe_once; the
\* caller keeps both update sources.
TwoRuns ==
  /\ \A s, t \in Slots : s # t /\ subs[s].via # None => subs[s].via # subs[t].via
  /\ \A s \in Slots : subs[s].via = "subscribe" => Len(subs[s].sent) <= 1

NextEquiv ==
  /\ \/ Subscribe(Slots)
     \/ SubscribeOnceOpen(Slots)
     \/ \E s \in Slots : RunNext(s)
  /\ TwoRuns'

SpecEquiv == InitStream /\ [][NextEquiv]_vars

\* Two subscriptions on one client in every interleaving, each with at most one
\* filter-set sent, against a server that answers the open and emits one update
\* per stream once it has a filter-set.
IsoPolicies == { p \in Policies : p.accept /\ p.need = 1 /\ p.len = 1 }

InitIso == InitStream /\ policy \in IsoPolicies

IsoRuns == \A s \in Slots : Len(subs[s].sent) <= 1

NextIso ==
  /\ StreamNext(Slots)
  /\ IsoRuns'

SpecIso == InitIso /\ [][NextIso]_vars

\* =================================================================== claims
ArgUri == from_shared(args.endpoint)
ArgTlsOk == EffectiveTls(ArgUri, args.tls_config).ok

\* A credential that is present, non-empty and printable ASCII.
WellFormedToken(t) ==
  t.some /\ Len(t.v) > 0 /\ \A i \in 1..Len(t.v) : t.v[i] \in 33..126

HasXToken(md) == \E e \in md : e[1] = "x-token"

\* C1: with an endpoint that parses and TLS settings that apply, a present but
\* zero-length credential makes connect fail with InvalidXTokenLength(0), not
\* with MetadataValueError, and no client handle exists.
C1_EmptyTokenLengthError ==
  (pc # "start" /\ args.x_token = Some(<<>>) /\ ArgUri.ok /\ ArgTlsOk)
    => /\ result = Err("InvalidXTokenLength", 0)
       /\ pc = "failed"
       /\ client = NoClient

C1_Witness ==
  /\ args.x_token = Some(<<>>)
  /\ args.tls_config.some
  /\ result.tag = "InvalidXTokenLength"

\* C2: a syntactically invalid endpoint (a scheme-less relative path, the empty
\* string, a scheme without authority, a forbidden byte) makes connect fail with
\* InvalidUri whatever the credential and the TLS configuration, and no client
\* handle exists.
C2_InvalidEndpoints ==
  { <<"seg", "/", "seg", "/", "seg">>, <<>>, <<"https", "://">>,
    <<"http", "://", "host", "sp">> }

C2_InvalidUriError ==
  (pc # "start" /\ args.endpoint \in C2_InvalidEndpoints)
    => /\ result.tag = "InvalidUri"
       /\ pc = "failed"
       /\ client = NoClient

C2_Witness ==
  /\ args.endpoint = <<"seg", "/", "seg", "/", "seg">>
  /\ args.x_token = Some(<<>>)
  /\ args.tls_config.material = "malformed"
  /\ result.tag = "InvalidUri"

\* C3: a client built with a credential holds it unchanged in both stubs'
\* interceptors, and every outbound call carries exactly the metadata entry
\* "x-token" with the credential given to connect.
C3_TokenOnEveryCall ==
  (pc = "ready" /\ args.x_token.some)
    => /\ client.health.x_token = Some(args.x_token.v)
       /\ client.geyser.x_token = Some(args.x_token.v)
       /\ lastCall # NoCall =>
            { e \in lastCall.metadata : e[1] = "x-token" }
              = { <<"x-token", args.x_token.v>> }

C3_Witness ==
  /\ pc = "ready"
  /\ args.x_token.some
  /\ lastCall.stub = "health"
  /\ lastCall.method = "watch"
  /\ \E s \in Slots : subs[s].via = "subscribe_once"

\* C4 as stated: no credential and an endpoint that parses give a client, and no
\* call carries "x-token".
C4_Original ==
  (pc # "start" /\ args.x_token = NoneOpt /\ ArgUri.ok)
    => /\ pc = "ready"
       /\ ~HasXToken(lastCall.metadata)

\* C4, amended: no credential, an endpoint that parses and encryption settings
\* that apply without error give a client, and no call made through it carries
\* "x-token".
C4_NoTokenNoHeader ==
  (pc # "start" /\ args.x_token = NoneOpt /\ ArgUri.ok /\ ArgTlsOk)
    => /\ pc = "ready"
       /\ result = Ok
       /\ ~HasXToken(lastCall.metadata)

C4_Witness ==
  /\ pc = "ready"
  /\ args.x_token = NoneOpt
  /\ lastCall.method = "subscribe"

\* C5 as stated: every endpoint with the insecure scheme that parses, with a
\* well-formed non-empty credential, gives a client.
C5_Original ==
  (pc # "start" /\ ArgUri.ok /\ ArgUri.scheme = "http" /\ WellFormedToken(args.x_token))
    => result = Ok

\* C5, amended: ... provided the caller's TLS configuration, if any, applies
\* without error; for every non-empty credential length.
C5_InsecureSucceeds ==
  ( /\ pc # "start"
    /\ ArgUri.ok /\ ArgUri.scheme = "http"
    /\ WellFormedToken(args.x_token)
    /\ args.tls_config.some => tls_config(ArgUri, args.tls_config) )
    => /\ result = Ok
       /\ pc = "ready"
       /\ client.exists

C5_Witness ==
  /\ result = Ok
  /\ ArgUri.scheme = "http"
  /\ args.x_token.some
  /\ Len(args.x_token.v) = 1

\* C6 as stated: ... every endpoint with the secure scheme that parses, with a
\* well-formed credential and no explicit TLS configuration, gives a client
\* with default encryption.
C6_Original ==
  ( /\ pc # "start"
    /\ ArgUri.ok /\ ArgUri.scheme = "https"
    /\ ~args.tls_config.some
    /\ WellFormedToken(args.x_token) )
    => /\ pc = "ready"
       /\ channel.tls = DefaultTls

\* C6, amended: the encryption of the channel is the caller's configuration when
\* one is given, else the default settings for the secure scheme, else none;
\* with the secure scheme, a host that is a TLS server name, a well-formed
\* credential and no explicit configuration connect succeeds with the default
\* settings.
C6_EffectiveEncryption ==
  /\ pc = "ready" =>
       channel.tls = IF args.tls_config.some THEN args.tls_config
                     ELSE IF ArgUri.scheme = "https" THEN DefaultTls
                     ELSE NoTls
  /\ ( /\ pc # "start"
       /\ ArgUri.ok /\ ArgUri.scheme = "https"
       /\ ServerNameOk(ArgUri.host)
       /\ ~args.tls_config.some
       /\ WellFormedToken(args.x_token) )
       => /\ pc = "ready"
          /\ channel.tls = DefaultTls

C6_Witness ==
  /\ pc = "ready"
  /\ ArgUri.scheme = "https"
  /\ ~args.tls_config.some
  /\ channel.tls = DefaultTls

\* C7: no connection attempt is made by connect or before the first remote
\* call: until a call is issued the channel is idle, also when the endpoint is
\* unreachable, and connect fails only with its four validation errors.
C7_NoNetworkIO ==
  /\ lastCall = NoCall => ~netIO
  /\ (pc = "ready" /\ lastCall = NoCall) => channel.conn = "idle"
  /\ pc = "failed" =>
       result.tag \in {"InvalidUri", "TonicError", "MetadataValueError",
                       "InvalidXTokenLength"}

C7_Witness ==
  /\ pc = "ready"
  /\ ~reachable
  /\ lastCall = NoCall
  /\ result = Ok

\* C8: what the server has received on a subscription is a prefix of what was
\* sent on its sink, in send order; while the request channel is up, received
\* and buffered messages together are exactly the messages sent.
C8_FifoPrefix ==
  \A s \in Slots :
    /\ IsPrefix(subs[s].received, subs[s].sent)
    /\ subs[s].rx = "alive" => subs[s].received \o subs[s].queue = subs[s].sent

C8_Witness ==
  \E s \in Slots :
    /\ Len(subs[s].received) = 2
    /\ subs[s].received[1] # subs[s].received[2]

\* C9: after open, one send and the sink dropped, the update source has ended
\* or yielded an error only if the server closed the stream or errored or the
\* transport terminated; until then buffered updates can be pulled.
C9_SourceOutlivesSink ==
  \A s \in Slots :
    ( /\ subs[s].phase = "open" /\ subs[s].src = "held"
      /\ subs[s].tx = "dropped" /\ Len(subs[s].sent) = 1 )
      => /\ subs[s].srcState # "reading" => subs[s].srvEnd # None
         /\ (subs[s].srcState = "reading" /\ subs[s].inbound # <<>>)
              => ENABLED NextItem(s)

C9_Witness ==
  \E s \in Slots :
    /\ subs[s].via = "subscribe"
    /\ subs[s].tx = "dropped" /\ Len(subs[s].sent) = 1
    /\ subs[s].eof
    /\ subs[s].pulledClosed
    /\ subs[s].items # <<>>
    /\ subs[s].items[Len(subs[s].items)].kind = "update"
    /\ subs[s].srvEnd = None

\* Nothing more can arrive on, or be pulled from, subscription s.
Stable(s) ==
  ~ENABLED (\/ NextItem(s) \/ Deliver(s) \/ DeliverEof(s)
            \/ ServerEmit(s) \/ ServerFinish(s) \/ TearDown(s))

\* Run a is subscribe and one send of the filter-set run b gave subscribe_once;
\* both returned their update source.
SameFilterRuns(a, b) ==
  /\ subs[a].via = "subscribe" /\ subs[b].via = "subscribe_once"
  /\ subs[a].phase = "open" /\ subs[b].phase = "open"
  /\ subs[a].src = "held" /\ subs[b].src = "held"
  /\ subs[a].sent = <<subs[b].once>>

\* C10 as stated: when both runs have run to completion, the items pulled from
\* the two update sources are the same.
C10_Original ==
  \A a, b \in Slots :
    (SameFilterRuns(a, b) /\ Stable(a) /\ Stable(b))
      => subs[a].items = subs[b].items

\* C10, amended: ... the same when the sink of the subscribe run is dropped
\* after its one send, as subscribe_once drops its own.
C10_EquivalentWhenSinkDropped ==
  \A a, b \in Slots :
    (SameFilterRuns(a, b) /\ subs[a].tx = "dropped" /\ Stable(a) /\ Stable(b))
      => subs[a].items = subs[b].items

C10_Witness ==
  \E a, b \in Slots :
    /\ SameFilterRuns(a, b) /\ subs[a].tx = "dropped" /\ Stable(a) /\ Stable(b)
    /\ policy.need = 1 /\ policy.finish = "onEof"
    /\ Len(subs[b].items) = MaxScript + 1
    /\ subs[b].items[1].filter = subs[b].once

\* C11: a subscribe_once that returned its update source has put exactly one
\* request on its stream, at every later moment: the five filter groups as
\* given, the commitment level as its number (absent stays absent); the sink is
\* gone, no further send on the stream is possible, and the server has received
\* nothing but that request.
C11_Expected(a) ==
  [slots |-> a.slots, accounts |-> a.accounts, transactions |-> a.transactions,
   blocks |-> a.blocks, blocks_meta |-> a.blocks_meta,
   commitment |-> IF a.commitment.some
                  THEN [some |-> TRUE,
                        v |-> CASE a.commitment.v = "processed" -> 0
                                [] a.commitment.v = "confirmed" -> 1
                                [] a.commitment.v = "finalized" -> 2]
                  ELSE [some |-> FALSE, v |-> -1]]

C11_ExactlyOneRequest ==
  \A s \in Slots :
    (subs[s].via = "subscribe_once" /\ subs[s].phase = "open")
      => /\ subs[s].ret = "Ok"
         /\ subs[s].sent = <<C11_Expected(subs[s].given)>>
         /\ subs[s].tx = "dropped"
         /\ ~ENABLED Send(s)
         /\ IsPrefix(subs[s].received, subs[s].sent)
         /\ Len(subs[s].received) + Len(subs[s].queue) <= 1

C11_Witness ==
  \E s \in Slots :
    /\ subs[s].via = "subscribe_once" /\ subs[s].phase = "open"
    /\ subs[s].given.commitment = Some("confirmed")
    /\ subs[s].given.blocks_meta = {"meta"}
    /\ Len(subs[s].received) = 1
    /\ subs[s].received[1].commitment = [some |-> TRUE, v |-> 1]
    /\ subs[s].eof
    /\ subs[s].srcState = "done"

\* One step of subscription s that is a send on its sink, by the caller or by
\* subscribe_once: it fails exactly when the receiving end of the request
\* channel is gone, and otherwise appends to the buffer whatever is buffered.
C12_SendStep(s) ==
  /\ Send(s) =>
       IF subs[s].rx = "alive"
       THEN /\ subs'[s].lastSend = "Ok"
            /\ Len(subs'[s].queue) = Len(subs[s].queue) + 1
            /\ Len(subs'[s].sent) = Len(subs[s].sent) + 1
       ELSE /\ subs'[s].lastSend = "SendError"
            /\ subs'[s].sent = subs[s].sent
  /\ SubscribeOnceSend(s) =>
       IF subs[s].rx = "alive"
       THEN /\ subs'[s].lastSend = "Ok"
            /\ subs'[s].ret = "Ok"
            /\ subs'[s].src = "held"
            /\ Len(subs'[s].queue) = Len(subs[s].queue) + 1
       ELSE /\ subs'[s].lastSend = "SendError"
            /\ subs'[s].ret = "SubscribeSendError"
            /\ subs'[s].phase = "failed"
            /\ subs'[s].src = "dropped"
            /\ subs'[s].sent = <<>>

\* C12: a send on the request sink fails only if the receiving side of the
\* request channel is already torn down; otherwise it succeeds at once however
\* many messages are buffered; a failed send in subscribe_once is returned as
\* SubscribeSendError and no update source is returned.
C12_SendFailsOnlyWhenClosed == [][\A s \in Slots : C12_SendStep(s)]_vars

C12_Witness ==
  \E s \in Slots :
    /\ subs[s].via = "subscribe_once"
    /\ subs[s].lastSend = "SendError"
    /\ subs[s].ret = "SubscribeSendError"
    /\ subs[s].rx = "dropped"
    /\ subs[s].src = "dropped"

\* C13: a fault of the stream shows as an error item of the update source that
\* carries the status as the peer (or the transport) gave it, after the updates
\* that preceded it; the error item does not end the sequence by itself: the
\* caller can pull again; the sequence has ended only if the server has closed
\* the stream or the transport has terminated, and a failed stream never ends
\* without its error item.
C13_ErrorItems ==
  \A s \in Slots :
    LET it == subs[s].items IN
    /\ \A i \in 1..Len(it) :
         /\ it[i].kind = "error" =>
              /\ subs[s].srvEnd \in {"status", "abort"}
              /\ it[i].status = subs[s].srvEnd
              /\ \A j \in 1..(i - 1) : it[j].kind = "update"
         /\ it[i].kind = "end" =>
              /\ i = Len(it)
              /\ subs[s].srvEnd # None
              /\ subs[s].srvEnd # "ok" => (i > 1 /\ it[i - 1].kind = "error")
    /\ (it # <<>> /\ it[Len(it)].kind = "error" /\ subs[s].src = "held")
         => /\ subs[s].srcState # "done"
            /\ ENABLED NextItem(s)

C13_Witness ==
  \E s \in Slots :
    /\ Len(subs[s].items) = 2
    /\ subs[s].items[1].kind = "update"
    /\ subs[s].items[2] = ErrItem("status")
    /\ subs[s].src = "held"
    /\ ENABLED NextItem(s)

\* A credential that no header value can hold: some byte is neither printable
\* ASCII nor a tab.
C14_Malformed(t) ==
  t.some /\ \E i \in 1..Len(t.v) : ~(t.v[i] \in 32..126 \/ t.v[i] = 9)

\* C14: connect reports the first failure in the order endpoint URI, encryption
\* settings, credential format, credential length: an invalid endpoint gives
\* InvalidUri whatever the credential and the settings; failing encryption
\* settings give the transport error whatever the credential; a malformed
\* credential gives MetadataValueError once the first two pass and never
\* InvalidXTokenLength; the length error is only the last resort.
C14_FirstFailureOnly ==
  pc # "start" =>
    /\ ~ArgUri.ok => result.tag = "InvalidUri"
    /\ (ArgUri.ok /\ ~ArgTlsOk) => result.tag = "TonicError"
    /\ (ArgUri.ok /\ ArgTlsOk /\ C14_Malformed(args.x_token))
         => result.tag = "MetadataValueError"
    /\ C14_Malformed(args.x_token) => result.tag # "InvalidXTokenLength"
    /\ result.tag = "InvalidXTokenLength"
         => (ArgUri.ok /\ ArgTlsOk /\ args.x_token = Some(<<>>))
    /\ pc = "failed" <=> result # Ok

C14_Witness ==
  /\ pc = "failed"
  /\ ArgUri.ok /\ ~ArgTlsOk
  /\ args.tls_config.material = "malformed"
  /\ args.x_token = Some(<<10>>)
  /\ result.tag = "TonicError"

\* The lifecycle state of a subscription: 0 Unopened, 1 Open, 2 HalfClosed (the
\* sink is released, the update side is not closed), 3 Closed (the open or
\* the one send failed, the update source has ended or is released).
C15_Stage(sub) ==
  IF sub.phase = "unopened" THEN 0
  ELSE IF sub.phase = "failed" \/ sub.src = "dropped" \/ sub.srcState = "done" THEN 3
  ELSE IF sub.tx = "dropped" THEN 2
  ELSE 1

C15_Updates(sub) == { i \in 1..Len(sub.items) : sub.items[i].kind = "update" }

\* C15 as stated: states only move forwards, once the request side is closed
\* (the sink released) no further request message reaches the server, and once
\* Closed the update source yields no further update.
C15_Original ==
  [][\A s \in Slots :
       /\ C15_Stage(subs'[s]) >= C15_Stage(subs[s])
       /\ subs[s].tx = "dropped" => subs'[s].received = subs[s].received
       /\ C15_Stage(subs[s]) = 3 => C15_Updates(subs'[s]) = C15_Updates(subs[s])]_vars

\* C15, amended: states only move forwards; once the sink is released no further
\* message is enqueued, only messages already buffered may still reach the
\* server, in send order, and once the end of input has reached the server no
\* further request message does; once Closed the update source yields no
\* further update.
C15_ForwardOnly ==
  [][\A s \in Slots :
       /\ C15_Stage(subs'[s]) >= C15_Stage(subs[s])
       /\ subs[s].tx = "dropped" =>
            /\ subs'[s].tx = "dropped"
            /\ subs'[s].sent = subs[s].sent
            /\ IsPrefix(subs[s].received, subs'[s].received)
            /\ IsPrefix(subs'[s].received, subs[s].sent)
       /\ subs[s].eof => (subs'[s].eof /\ subs'[s].received = subs[s].received)
       /\ C15_Stage(subs[s]) = 3 => C15_Updates(subs'[s]) = C15_Updates(subs[s])]_vars

C15_Witness ==
  \E s \in Slots :
    /\ subs[s].via = "subscribe"
    /\ C15_Stage(subs[s]) = 2
    /\ Len(subs[s].received) = 1
    /\ Len(subs[s].queue) = 1
    /\ C15_Updates(subs[s]) # {}

\* C16: a request message is enqueued on a subscription only after its open was
\* answered successfully; a failed open is returned as TonicStatus, by subscribe
\* and by subscribe_once, nothing is or can ever be enqueued on it, and neither
\* sink nor update source exists.
C16_OpenBeforeSend ==
  \A s \in Slots :
    /\ (subs[s].sent # <<>> \/ subs[s].queue # <<>> \/ subs[s].received # <<>>
        \/ subs[s].lastSend # None)
         => /\ OpenOutcome = "Ok"
            /\ lastCall.method = "subscribe" /\ lastCall.outcome = "Ok"
            /\ subs[s].ret # "TonicStatus"
    /\ (subs[s].phase # "unopened" /\ OpenOutcome # "Ok")
         => /\ subs[s].ret = "TonicStatus"
            /\ subs[s].phase = "failed"
            /\ subs[s].sent = <<>> /\ subs[s].queue = <<>>
            /\ subs[s].tx = "dropped" /\ subs[s].src = "dropped"
            /\ ~ENABLED Send(s)
            /\ ~ENABLED SubscribeOnceSend(s)
            /\ ~ENABLED NextItem(s)
    /\ subs[s].phase = "unopened" => subs[s].sent = <<>>

C16_Witness ==
  \E s \in Slots :
    /\ subs[s].via = "subscribe_once"
    /\ subs[s].given.slots = {"client"}
    /\ subs[s].ret = "TonicStatus"
    /\ lastCall.method = "subscribe" /\ lastCall.outcome = "Status"
    /\ subs[s].sent = <<>>

\* C17: the interceptor of either stub never fails at call time: on a client
\* connect returned, with or without a credential, InterceptorFn::call gives Ok
\* for a request with or without an earlier "x-token" entry, and every call made
\* passed the interceptor, so a status it ended with is the peer's.
C17_InterceptorNeverFails ==
  pc = "ready" =>
    /\ \A stub \in {"health", "geyser"} :
         \A md \in {{}, {<<"x-token", <<49>>>>}} :
           InterceptorFn_call(client[stub], md).ok
    /\ lastCall # NoCall => lastCall.intercepted = "Ok"

C17_Witness ==
  /\ pc = "ready"
  /\ args.x_token = NoneOpt
  /\ lastCall.stub = "geyser"
  /\ lastCall.method = "get_version"
  /\ lastCall.intercepted = "Ok"
  /\ lastCall.outcome = "Status"

C18_UnaryMethods ==
  {"check", "ping", "get_latest_blockhash", "get_block_height", "get_slot",
   "is_blockhash_valid", "get_version"}

\* C18: every invocation of a unary operation hands exactly one request to the
\* channel; it returns the response's message when the peer answered and the
\* peer's status as TonicStatus otherwise, with no second attempt; it changes
\* nothing of the client: the stubs, their credential, the endpoint and the
\* open subscriptions are as before.
C18_OneCallNoRetry ==
  [][(lastCall' # lastCall /\ lastCall'.method \in C18_UnaryMethods) =>
       /\ lastCall'.seq = lastCall.seq + 1
       /\ lastCall'.intercepted = "Ok"
       /\ lastCall'.outcome = "Ok" =>
            (reachable /\ lastCall'.returned = [tag |-> "Ok", value |-> lastCall'.method])
       /\ lastCall'.outcome # "Ok" =>
            lastCall'.returned = [tag |-> "TonicStatus", value |-> "Status"]
       /\ client' = client /\ subs' = subs /\ args' = args /\ result' = result
       /\ pc' = pc
       /\ channel'.uri = channel.uri /\ channel'.tls = channel.tls]_vars

C18_Witness ==
  /\ lastCall.method = "get_slot"
  /\ lastCall.seq = 2
  /\ lastCall.outcome = "Status"
  /\ lastCall.returned.tag = "TonicStatus"
  /\ reachable

\* C19: two subscriptions on one client are isolated in every interleaving: an
\* open makes a fresh, empty queue and leaves the other subscription as it is;
\* every step of one subscription (a send, a delivery, an update, the sink or
\* the source released, the stream ending) leaves the other's queue, sink,
\* stream and update source unchanged; what reaches the server on a stream is
\* a prefix of what was sent on that stream's sink.
C19_Isolated ==
  [][\A s, t \in Slots :
       s # t =>
         /\ (RunNext(s) \/ DropSource(s)) => subs'[t] = subs[t]
         /\ (subs[s].phase = "unopened" /\ subs'[s].phase # "unopened")
              => /\ subs'[t] = subs[t]
                 /\ subs'[s].queue = <<>> /\ subs'[s].received = <<>>
         /\ IsPrefix(subs'[s].received, subs'[s].sent)
         /\ Len(subs'[s].sent) > Len(subs[s].sent) => subs[s].tx = "held"]_vars

C19_Witness ==
  \E s, t \in Slots :
    /\ s # t
    /\ subs[s].via = "subscribe" /\ subs[t].via = "subscribe"
    /\ subs[s].tx = "dropped" /\ subs[s].srcState = "done"
    /\ subs[t].phase = "open" /\ subs[t].tx = "held" /\ subs[t].src = "held"
    /\ subs[t].rx = "alive" /\ subs[t].srvEnd = None
    /\ Len(subs[t].received) = 1
    /\ subs[s].received # subs[t].received
    /\ subs[t].items # <<>>

====
